---- MODULE Spec2Model ----
(***************************************************************************)
(* Transcript extraction: scripts/extract_transcript.py (HTML <track>      *)
(* captions, then inline JSON) and extract_transcript.py (Wistia embed).   *)
(*                                                                         *)
(* Text is modelled as sequences of one-character strings, so that strip,  *)
(* upper/lower, startswith, "in" and isdigit are computed, not assumed.    *)
(* The atom "BOM" stands for the single character U+FEFF and "NBSP" for    *)
(* U+00A0.  Python's None is <<>> and a present value x is <<x>>.          *)
(***************************************************************************)
EXTENDS Integers, Sequences, FiniteSets, TLC

VARIABLES vtt, col, wis, jsn, run

vars == <<vtt, col, wis, jsn, run>>

(***************************************************************************)
(* Bounds of the model.                                                    *)
(***************************************************************************)
MaxBlocks == 2

MaxTags == 2

MaxChunks == 2

MaxItems == 2

(***************************************************************************)
(* Python str operations on character sequences.                           *)
(***************************************************************************)
LowerChars == <<"a","b","c","d","e","f","g","h","i","j","k","l","m",
                "n","o","p","q","r","s","t","u","v","w","x","y","z">>

UpperChars == <<"A","B","C","D","E","F","G","H","I","J","K","L","M",
                "N","O","P","Q","R","S","T","U","V","W","X","Y","Z">>

Digits == {"0","1","2","3","4","5","6","7","8","9"}

Range(s) == {s[i] : i \in 1..Len(s)}

Alnum == Range(LowerChars) \cup Range(UpperChars) \cup Digits

\* str.strip() with no argument strips Unicode whitespace; U+FEFF is not whitespace.
Whitespace == {" ", "\t", "\n", "\r", "NBSP"}

UpperChar(c) ==
    IF \E i \in 1..26 : LowerChars[i] = c
    THEN UpperChars[CHOOSE i \in 1..26 : LowerChars[i] = c]
    ELSE c

LowerChar(c) ==
    IF \E i \in 1..26 : UpperChars[i] = c
    THEN LowerChars[CHOOSE i \in 1..26 : UpperChars[i] = c]
    ELSE c

Upper(s) == [i \in 1..Len(s) |-> UpperChar(s[i])]

Lower(s) == [i \in 1..Len(s) |-> LowerChar(s[i])]

StartsWith(s, p) == Len(s) >= Len(p) /\ SubSeq(s, 1, Len(p)) = p

Contains(s, p) == \E i \in 1..(Len(s) - Len(p) + 1) : SubSeq(s, i, i + Len(p) - 1) = p

IsDigit(s) == s # <<>> /\ \A i \in 1..Len(s) : s[i] \in Digits

Strip(s, chars) ==
    LET keep == {i \in 1..Len(s) : s[i] \notin chars}
    IN  IF keep = {} THEN <<>>
        ELSE SubSeq(s, CHOOSE i \in keep : \A j \in keep : i <= j,
                       CHOOSE i \in keep : \A j \in keep : i >= j)

RECURSIVE Join(_, _)
Join(parts, sep) ==
    IF parts = <<>> THEN <<>>
    ELSE IF Len(parts) = 1 THEN parts[1]
    ELSE parts[1] \o sep \o Join(Tail(parts), sep)

\* str.splitlines(): "\n", "\r" and "\r\n" end a line; no empty last line.
RECURSIVE SplitLines(_)
SplitLines(s) ==
    IF s = <<>> THEN <<>>
    ELSE LET brk == {i \in 1..Len(s) : s[i] \in {"\n", "\r"}}
         IN  IF brk = {} THEN <<s>>
             ELSE LET b == CHOOSE i \in brk : \A j \in brk : i <= j
                      n == IF s[b] = "\r" /\ b < Len(s) /\ s[b + 1] = "\n"
                           THEN b + 2 ELSE b + 1
                  IN  <<SubSeq(s, 1, b - 1)>> \o SplitLines(SubSeq(s, n, Len(s)))

None == <<>>

Some(x) == <<x>>

(***************************************************************************)
(* parse_webvtt (scripts/extract_transcript.py): one loop iteration is     *)
(* ParseLine, chosen by the if-chain LineClass; FlushEnd is the code after *)
(* the loop.                                                               *)
(***************************************************************************)
BOM == "BOM"

Arrow == <<"-", "-", ">">>

StripLine(raw_line) == Strip(raw_line, {BOM, " ", "\t"})

IsBannerLine(line) == StartsWith(Upper(line), <<"W","E","B","V","T","T">>)

IsNoteLine(line) == StartsWith(Upper(line), <<"N","O","T","E">>)

LineClass(line, skipping_note) ==
    IF line = <<>> THEN "blank"
    ELSE IF IsBannerLine(line) THEN "banner"
    ELSE IF IsNoteLine(line) THEN "note"
    ELSE IF skipping_note THEN "note_body"
    ELSE IF Contains(line, Arrow) THEN "timing"
    ELSE IF IsDigit(line) THEN "index"
    ELSE "text"

FlushCue(buffer) == Strip(Join(buffer, <<" ">>), Whitespace)

ParseLine(st, raw_line) ==
    LET line == StripLine(raw_line)
        cls  == LineClass(line, st.skipping_note)
    IN  CASE cls = "blank" ->
                [cues |-> IF st.buffer # <<>>
                          THEN Append(st.cues, FlushCue(st.buffer)) ELSE st.cues,
                 buffer |-> <<>>,
                 skipping_note |-> FALSE]
          [] cls = "note" -> [st EXCEPT !.skipping_note = TRUE]
          [] cls = "text" -> [st EXCEPT !.buffer = Append(st.buffer, line)]
          [] OTHER -> st

FlushEnd(st) ==
    LET cues == IF st.buffer # <<>>
                THEN Append(st.cues, FlushCue(st.buffer)) ELSE st.cues
    IN  SelectSeq(cues, LAMBDA cue : cue # <<>>)

RECURSIVE ParseLines(_, _)
ParseLines(st, lines) ==
    IF lines = <<>> THEN st ELSE ParseLines(ParseLine(st, lines[1]), Tail(lines))

ParseStart == [cues |-> <<>>, buffer |-> <<>>, skipping_note |-> FALSE]

parse_webvtt(data) == FlushEnd(ParseLines(ParseStart, SplitLines(data)))

(***************************************************************************)
(* Caption files fed to the parser: an optional banner, then cue blocks    *)
(* and NOTE blocks separated by blank lines.                               *)
(***************************************************************************)
TimingLine == <<"0","0",":","0","1"," ","-","-",">"," ","0","0",":","0","2">>

BannerText == <<"W","E","B","V","T","T">>

Payloads ==
    { << <<"H","i",".">> >>,
      << <<" ","O","k","\t">> >>,
      << <<"H","i",".">>, <<"Y","o">> >>,
      << <<"N","o","t","e","d",".">> >>,
      << <<"Y","o">>, <<"n","o","t","e"," ","i","t">> >> }

CueBlocks == [kind : {"cue"}, index : BOOLEAN, payload : Payloads]

NoteBlocks == { [kind |-> "note", index |-> FALSE,
                 payload |-> << <<"N","O","T","E"," ","x">>, <<"Y","o">> >>] }

Blocks == CueBlocks \cup NoteBlocks

BlockLines(b) ==
    IF b.kind = "note" THEN b.payload
    ELSE (IF b.index THEN << <<"1","2">> >> ELSE <<>>) \o <<TimingLine>> \o b.payload

RECURSIVE DocLines(_)
DocLines(blocks) ==
    IF blocks = <<>> THEN <<>>
    ELSE IF Len(blocks) = 1 THEN BlockLines(blocks[1])
    ELSE BlockLines(blocks[1]) \o << <<>> >> \o DocLines(Tail(blocks))

Banners == {None, Some(BannerText), Some(<<BOM>> \o BannerText)}

Eols == {<<"\n">>, <<"\r", "\n">>}

\* The text of a caption file: lines joined by the end-of-line sequence,
\* with or without a final end of line.
DocText(banner, blocks, eol, final_eol) ==
    LET body == DocLines(blocks)
        ls   == IF banner = None THEN body
                ELSE IF body = <<>> THEN banner ELSE banner \o << <<>> >> \o body
    IN  Join(ls, eol) \o (IF final_eol /\ ls # <<>> THEN eol ELSE <<>>)

BlockSeqs(n) == UNION {[1..k -> Blocks] : k \in 0..n}

(***************************************************************************)
(* parse_webvtt run line by line.                                          *)
(***************************************************************************)
\* A function that is not running.
Idle == [pc |-> "idle"]

VttInit ==
    \E banner \in Banners, blocks \in BlockSeqs(MaxBlocks), eol \in Eols,
       final_eol \in BOOLEAN :
        vtt = [pc |-> "loop", blocks |-> blocks,
               data |-> DocText(banner, blocks, eol, final_eol),
               lines |-> SplitLines(DocText(banner, blocks, eol, final_eol)),
               i |-> 1, st |-> ParseStart, cues |-> <<>>]

VttAt(cls) ==
    /\ vtt.pc = "loop"
    /\ vtt.i <= Len(vtt.lines)
    /\ LineClass(StripLine(vtt.lines[vtt.i]), vtt.st.skipping_note) = cls

VttAdvance ==
    /\ vtt' = [vtt EXCEPT !.st = ParseLine(vtt.st, vtt.lines[vtt.i]), !.i = vtt.i + 1]
    /\ UNCHANGED <<col, wis, jsn, run>>

VttBlank ==
    /\ VttAt("blank")
    /\ VttAdvance

VttBanner ==
    /\ VttAt("banner")
    /\ VttAdvance

VttNote ==
    /\ VttAt("note")
    /\ VttAdvance

VttNoteBody ==
    /\ VttAt("note_body")
    /\ VttAdvance

VttTiming ==
    /\ VttAt("timing")
    /\ VttAdvance

VttIndex ==
    /\ VttAt("index")
    /\ VttAdvance

VttText ==
    /\ VttAt("text")
    /\ VttAdvance

VttReturn ==
    /\ vtt.pc = "loop"
    /\ vtt.i > Len(vtt.lines)
    /\ vtt' = [vtt EXCEPT !.pc = "done", !.cues = FlushEnd(vtt.st)]
    /\ UNCHANGED <<col, wis, jsn, run>>

(***************************************************************************)
(* _HTMLTrackCollector.handle_starttag.  A tag event is what HTMLParser    *)
(* hands over: the tag name and the attribute list, names lower-cased by   *)
(* HTMLParser, values as written, None for an attribute without a value.   *)
(***************************************************************************)
Str_track == <<"t","r","a","c","k">>

Str_video == <<"v","i","d","e","o">>

Str_kind == <<"k","i","n","d">>

Str_src == <<"s","r","c">>

Str_label == <<"l","a","b","e","l">>

Str_subtitles == <<"s","u","b","t","i","t","l","e","s">>

Str_captions == <<"c","a","p","t","i","o","n","s">>

Str_descriptions == <<"d","e","s","c","r","i","p","t","i","o","n","s">>

Str_capvtt == <<"c","a","p",".","v","t","t">>

Str_bvtt == <<"b",".","v","t","t">>

Str_English == <<"E","n","g","l","i","s","h">>

\* {key.lower(): value for key, value in attrs}.get(name): the last pair wins.
AttrGet(attrs, name) ==
    LET idx == {i \in 1..Len(attrs) : Lower(attrs[i][1]) = name}
    IN  IF idx = {} THEN None
        ELSE attrs[CHOOSE i \in idx : \A j \in idx : i >= j][2]

\* Python truthiness of an Optional[str].
Truthy(opt) == opt # None /\ opt[1] # <<>>

OrEmpty(opt) == IF Truthy(opt) THEN opt[1] ELSE <<>>

\* The kind compared as written, without .lower().
KindOf_CaseSensitive(attrs) == OrEmpty(AttrGet(attrs, Str_kind))

KindOf(attrs) == Lower(OrEmpty(AttrGet(attrs, Str_kind)))

TagClass(ev) ==
    IF Lower(ev.tag) # Str_track THEN "not_track"
    ELSE IF KindOf(ev.attrs) \notin {Str_subtitles, Str_captions} THEN "wrong_kind"
    ELSE IF ~Truthy(AttrGet(ev.attrs, Str_src)) THEN "no_src"
    ELSE "append"

handle_starttag(tracks, ev) ==
    IF TagClass(ev) = "append"
    THEN Append(tracks, [src |-> AttrGet(ev.attrs, Str_src)[1],
                         label |-> AttrGet(ev.attrs, Str_label)])
    ELSE tracks

RECURSIVE FeedTags(_, _)
FeedTags(tracks, tags) ==
    IF tags = <<>> THEN tracks
    ELSE FeedTags(handle_starttag(tracks, tags[1]), Tail(tags))

\* Tag events of the pages considered.
KindChoices ==
    {None, Some(Str_captions), Some(Upper(Str_captions)),
     Some(<<"S">> \o Tail(Str_subtitles)), Some(Str_descriptions)}

SrcChoices == {None, Some(<<>>), Some(Str_capvtt), Some(Str_bvtt)}

LabelChoices == {None, Some(Str_English)}

Attr(name, choice) == IF choice = None THEN <<>> ELSE << <<name, choice>> >>

TrackEvents ==
    { [tag |-> Str_track,
       attrs |-> Attr(Str_kind, k) \o Attr(Str_src, s) \o Attr(Str_label, l)] :
        k \in KindChoices, s \in SrcChoices, l \in LabelChoices }

\* <track kind> without a value, and a tag that is not a track.
OtherEvents ==
    { [tag |-> Str_track,
       attrs |-> << <<Str_kind, None>>, <<Str_src, Some(Str_capvtt)>> >>],
      [tag |-> Str_video,
       attrs |-> << <<Str_kind, Some(Str_captions)>>, <<Str_src, Some(Str_capvtt)>> >>] }

TagEvents == TrackEvents \cup OtherEvents

ColInit == col = [pc |-> "feed", tags |-> <<>>, tracks |-> <<>>]

\* parser.feed(html): the next start tag of the document reaches handle_starttag.
ColFeed(cls) ==
    /\ col.pc = "feed"
    /\ Len(col.tags) < MaxTags
    /\ \E ev \in TagEvents :
        /\ TagClass(ev) = cls
        /\ col' = [col EXCEPT !.tags = Append(col.tags, ev),
                              !.tracks = handle_starttag(col.tracks, ev)]
    /\ UNCHANGED <<vtt, wis, jsn, run>>

ColNotTrack ==
    /\ col.pc = "feed"
    /\ ColFeed("not_track")

ColWrongKind ==
    /\ col.pc = "feed"
    /\ ColFeed("wrong_kind")

ColNoSrc ==
    /\ col.pc = "feed"
    /\ ColFeed("no_src")

ColAppend ==
    /\ col.pc = "feed"
    /\ ColFeed("append")

ColEnd ==
    /\ col.pc = "feed"
    /\ col' = [col EXCEPT !.pc = "done"]
    /\ UNCHANGED <<vtt, wis, jsn, run>>

(***************************************************************************)
(* find_wistia_media_id (extract_transcript.py).  The HTML is a sequence   *)
(* of chunks in document order; a chunk is plain markup ("text") or one of *)
(* the three literal prefixes the patterns begin with, followed by `tail`, *)
(* the text right after the prefix.  A pattern is its prefix, the group    *)
(* ([a-zA-Z0-9]+) and a literal suffix.                                    *)
(***************************************************************************)
Str_jsonp == <<".","j","s","o","n","p">>

patterns ==
    << [prefix |-> "wistia_async_", suffix |-> <<>>],
       [prefix |-> "https://fast.wistia.net/embed/iframe/", suffix |-> <<>>],
       [prefix |-> "https://fast.wistia.com/embed/medias/", suffix |-> Str_jsonp] >>

\* The longest run of [a-zA-Z0-9] at the start of s.
AlnumRun(s) ==
    LET stop == {i \in 1..Len(s) : s[i] \notin Alnum}
    IN  IF stop = {} THEN s
        ELSE SubSeq(s, 1, (CHOOSE i \in stop : \A j \in stop : i <= j) - 1)

ChunkMatches(pattern, chunk) ==
    /\ chunk.prefix = pattern.prefix
    /\ AlnumRun(chunk.tail) # <<>>
    /\ StartsWith(SubSeq(chunk.tail, Len(AlnumRun(chunk.tail)) + 1, Len(chunk.tail)),
                  pattern.suffix)

\* re.search(pattern, html): the leftmost match, its group(1); None without one.
Search(pattern, html) ==
    LET hits == {i \in 1..Len(html) : ChunkMatches(pattern, html[i])}
    IN  IF hits = {} THEN None
        ELSE Some(AlnumRun(html[CHOOSE i \in hits : \A j \in hits : i <= j].tail))

RECURSIVE FirstMatch(_, _)
FirstMatch(k, html) ==
    IF k > Len(patterns) THEN None
    ELSE IF Search(patterns[k], html) # None THEN Search(patterns[k], html)
    ELSE FirstMatch(k + 1, html)

find_wistia_media_id(html) == FirstMatch(1, html)

Tails ==
    { <<"a","b","c">>, <<"x","y","9"," ","z">>, <<"-">>,
      <<"q","7",".","j","s","o","n","p">> }

Chunks ==
    {[prefix |-> "text", tail |-> <<>>]}
    \cup [prefix : {patterns[k].prefix : k \in 1..3}, tail : Tails]

ChunkSeqs(n) == UNION {[1..k -> Chunks] : k \in 0..n}

WisInit ==
    \E html \in ChunkSeqs(MaxChunks) :
        wis = [pc |-> "loop", html |-> html, k |-> 1, ret |-> None]

WisMatch ==
    /\ wis.pc = "loop"
    /\ wis.k <= Len(patterns)
    /\ Search(patterns[wis.k], wis.html) # None
    /\ wis' = [wis EXCEPT !.pc = "done", !.ret = Search(patterns[wis.k], wis.html)]
    /\ UNCHANGED <<vtt, col, jsn, run>>

WisNoMatch ==
    /\ wis.pc = "loop"
    /\ wis.k <= Len(patterns)
    /\ Search(patterns[wis.k], wis.html) = None
    /\ wis' = [wis EXCEPT !.k = wis.k + 1]
    /\ UNCHANGED <<vtt, col, jsn, run>>

WisReturnNone ==
    /\ wis.pc = "loop"
    /\ wis.k > Len(patterns)
    /\ wis' = [wis EXCEPT !.pc = "done", !.ret = None]
    /\ UNCHANGED <<vtt, col, jsn, run>>

(***************************************************************************)
(* extract_json_transcript (scripts/extract_transcript.py).  The page's    *)
(* JSON is a key and, when the key's value is an array, its items.         *)
(***************************************************************************)
Str_transcript == <<"t","r","a","n","s","c","r","i","p","t">>

Str_One == <<"O","n","e">>

Str_Two == <<"T","w","o">>

Item(t, v, text, body) == [t |-> t, v |-> v, text |-> text, body |-> body]

Items ==
    { Item("str", Str_One, None, None),
      Item("str", <<>>, None, None),
      Item("str", <<"a","]">>, None, None),
      Item("obj", <<>>, Some(Str_Two), None),
      Item("obj", <<>>, Some(<<>>), Some(Str_One)),
      Item("obj", <<>>, None, None),
      Item("num", <<"5">>, None, None),
      Item("arr", <<>>, None, None) }

ItemSeqs(n) == UNION {[1..k -> Items] : k \in 0..n}

Keys == {Str_transcript, <<"T">> \o Tail(Str_transcript), <<"t","e","x","t">>}

\* A page's JSON: the key and its array value (None: the value is no array).
Frags(n) ==
    {[key |-> k, array |-> None] : k \in Keys}
    \cup {[key |-> k, array |-> Some(a)] : k \in Keys, a \in ItemSeqs(n)}

\* Whether the JSON text of an item holds a "]".
HasBracket(item) ==
    \/ item.t = "arr"
    \/ "]" \in Range(item.v)
    \/ "]" \in Range(OrEmpty(item.text))
    \/ "]" \in Range(OrEmpty(item.body))

\* _JSON_TRANSCRIPT_RE.search(html): re.IGNORECASE on the key; group(1) runs
\* from "[" to the first "]", whole items before it and `closed` when that "]"
\* is the array's own.
JsonSearch(frag) ==
    IF Lower(frag.key) # Str_transcript \/ frag.array = None THEN None
    ELSE LET items == frag.array[1]
             cut   == {i \in 1..Len(items) : HasBracket(items[i])}
         IN  IF cut = {} THEN Some([items |-> items, closed |-> TRUE])
             ELSE Some([items |-> SubSeq(items, 1, (CHOOSE i \in cut : \A j \in cut : i <= j) - 1),
                        closed |-> FALSE])

\* json.loads(match.group(1)): JSONDecodeError (None here) on a cut fragment.
JsonLoads(group) == IF group.closed THEN Some(group.items) ELSE None

ItemClass(item) ==
    IF item.t = "obj" THEN "dict"
    ELSE IF item.t = "str" THEN "str"
    ELSE "other"

JsonItem(lines, item) ==
    CASE ItemClass(item) = "dict" ->
            LET text == IF Truthy(item.text) THEN item.text ELSE item.body
            IN  IF Truthy(text) THEN Append(lines, text[1]) ELSE lines
      [] ItemClass(item) = "str" -> Append(lines, item.v)
      [] OTHER -> lines

RECURSIVE JsonItems(_, _)
JsonItems(lines, payload) ==
    IF payload = <<>> THEN lines
    ELSE JsonItems(JsonItem(lines, payload[1]), Tail(payload))

\* `return lines` in place of `return lines or None`.
JsonReturn_Lines(lines) == Some(lines)

\* return lines or None
JsonReturn(lines) == IF lines = <<>> THEN None ELSE Some(lines)

extract_json_transcript(frag) ==
    IF JsonSearch(frag) = None THEN None
    ELSE IF JsonLoads(JsonSearch(frag)[1]) = None THEN None
    ELSE JsonReturn(JsonItems(<<>>, JsonLoads(JsonSearch(frag)[1])[1]))

\* extract_transcript, `if json_lines:` and the raise after it.
JsonDecision(json_lines) ==
    IF json_lines # None /\ json_lines[1] # <<>> THEN "Succeeded" ELSE "TranscriptNotFound"

JsnInit ==
    \E frag \in Frags(MaxItems) :
        jsn = [pc |-> "search", frag |-> frag, payload |-> <<>>, k |-> 1,
               lines |-> <<>>, ret |-> None, decision |-> "none"]

JsnNoMatch ==
    /\ jsn.pc = "search"
    /\ JsonSearch(jsn.frag) = None
    /\ jsn' = [jsn EXCEPT !.pc = "returned", !.ret = None]
    /\ UNCHANGED <<vtt, col, wis, run>>

JsnDecodeError ==
    /\ jsn.pc = "search"
    /\ JsonSearch(jsn.frag) # None
    /\ JsonLoads(JsonSearch(jsn.frag)[1]) = None
    /\ jsn' = [jsn EXCEPT !.pc = "returned", !.ret = None]
    /\ UNCHANGED <<vtt, col, wis, run>>

JsnLoads ==
    /\ jsn.pc = "search"
    /\ JsonSearch(jsn.frag) # None
    /\ JsonLoads(JsonSearch(jsn.frag)[1]) # None
    /\ jsn' = [jsn EXCEPT !.pc = "items", !.payload = JsonLoads(JsonSearch(jsn.frag)[1])[1]]
    /\ UNCHANGED <<vtt, col, wis, run>>

JsnAt(cls) ==
    /\ jsn.pc = "items"
    /\ jsn.k <= Len(jsn.payload)
    /\ ItemClass(jsn.payload[jsn.k]) = cls

JsnAdvance ==
    /\ jsn' = [jsn EXCEPT !.lines = JsonItem(jsn.lines, jsn.payload[jsn.k]),
                          !.k = jsn.k + 1]
    /\ UNCHANGED <<vtt, col, wis, run>>

JsnDict ==
    /\ JsnAt("dict")
    /\ JsnAdvance

JsnStr ==
    /\ JsnAt("str")
    /\ JsnAdvance

JsnOther ==
    /\ JsnAt("other")
    /\ JsnAdvance

JsnReturn ==
    /\ jsn.pc = "items"
    /\ jsn.k > Len(jsn.payload)
    /\ jsn' = [jsn EXCEPT !.pc = "returned", !.ret = JsonReturn(jsn.lines)]
    /\ UNCHANGED <<vtt, col, wis, run>>

JsnDecide ==
    /\ jsn.pc = "returned"
    /\ jsn' = [jsn EXCEPT !.pc = "done", !.decision = JsonDecision(jsn.ret)]
    /\ UNCHANGED <<vtt, col, wis, run>>

(***************************************************************************)
(* parse_caption_tracks and download_transcript (extract_transcript.py).   *)
(***************************************************************************)
Str_unknown == <<"u","n","k","n","o","w","n">>

Str_en == <<"e","n">>

Str_avtt == <<"a",".","v","t","t">>

\* urllib.parse.urljoin(base, ref), kept as the pair it is computed from.
urljoin(base, ref) == <<base, ref>>

WistiaBase == "https://fast.wistia.com/"

FirstTruthy(a, b) == IF Truthy(a) THEN a ELSE b

CaptionEntryTrack(caption) ==
    LET src      == FirstTruthy(caption.src, caption.url)
        language == FirstTruthy(FirstTruthy(caption.language, caption.label),
                                Some(Str_unknown))
    IN  IF ~Truthy(src) THEN <<>>
        ELSE << [language |-> language[1], url |-> urljoin(WistiaBase, src[1])] >>

RECURSIVE parse_caption_tracks(_)
parse_caption_tracks(captions) ==
    IF captions = <<>> THEN <<>>
    ELSE CaptionEntryTrack(captions[1]) \o parse_caption_tracks(Tail(captions))

\* The loop body's tests of download_transcript, on one line of the file.
KeepsLine(stripped) ==
    /\ stripped # <<>>
    /\ ~StartsWith(stripped, <<"W","E","B","V","T","T">>)
    /\ ~IsDigit(stripped)
    /\ ~Contains(stripped, Arrow)

download_transcript(raw) ==
    LET stripped == [i \in 1..Len(SplitLines(raw)) |-> Strip(SplitLines(raw)[i], Whitespace)]
    IN  Join(SelectSeq(stripped, KeepsLine), <<"\n">>)

(***************************************************************************)
(* The network: what a fetch of each URL may answer.                       *)
(***************************************************************************)
Str_Hello == <<"H","e","l","l","o"," ","t","h","e","r","e",".">>

Str_Goodbye == <<"G","o","o","d","b","y","e",".">>

Str_Hi == <<"H","i",".">>

\* WEBVTT, two cues; WEBVTT alone; one SRT cue.
DocHello ==
    Join(<<BannerText, <<>>, TimingLine, Str_Hello, <<>>, TimingLine, Str_Goodbye>>, <<"\n">>)

DocBanner == BannerText \o <<"\n">>

DocHi == Join(<< <<"1">>, TimingLine, Str_Hi>>, <<"\n">>) \o <<"\n">>

CaptionDocs == {DocHello, DocBanner, DocHi}

Caption(src, url, language, label) ==
    [src |-> src, url |-> url, language |-> language, label |-> label]

\* media.captions of the metadata documents a fetch may answer.
MetadataDocs ==
    { <<>>,
      << Caption(Some(Str_avtt), None, Some(Str_en), None) >>,
      << Caption(None, None, Some(Str_en), None) >>,
      << Caption(None, Some(Str_bvtt), None, None),
         Caption(Some(Str_avtt), None, None, Some(Str_English)) >> }

\* urllib.error.URLError, or an error urlopen/read raises that is no URLError.
FetchErrors == {"URLError", "OSError"}

(***************************************************************************)
(* The pages a run may be given.                                           *)
(***************************************************************************)
Track(kind, src, label) ==
    [tag |-> Str_track,
     attrs |-> Attr(Str_kind, Some(kind)) \o Attr(Str_src, Some(src)) \o Attr(Str_label, label)]

PageTags ==
    { Track(Str_captions, Str_capvtt, Some(Str_English)),
      Track(Str_subtitles, Str_bvtt, None),
      Track(Str_descriptions, Str_avtt, Some(Str_English)) }

PageTagSeqs == UNION {[1..k -> PageTags] : k \in 0..MaxTags}

PageChunks ==
    { <<>>,
      << [prefix |-> patterns[1].prefix, tail |-> <<"a","b","c">>] >> }

PageFrags ==
    { [key |-> <<"t","e","x","t">>, array |-> None],
      [key |-> Str_transcript, array |-> Some(<<>>)],
      [key |-> Str_transcript,
       array |-> Some(<<Item("str", Str_One, None, None),
                        Item("obj", <<>>, Some(Str_Two), None)>>)] }

Pages == [tags : PageTagSeqs, chunks : PageChunks, frag : PageFrags]

PageUrl == "https://example.com/promo"

MetadataUrl(media_id) == <<"https://fast.wistia.com/embed/medias/", media_id, ".json">>

(***************************************************************************)
(* A run: extract_transcript(url) of scripts/extract_transcript.py         *)
(* (prog = "scripts") or main(url) of extract_transcript.py                *)
(* (prog = "wistia").                                                      *)
(***************************************************************************)
RunInit ==
    \E prog \in {"scripts", "wistia"}, page \in Pages :
        run = [pc |-> "FetchingPage", prog |-> prog, page |-> page,
               status |-> "running", error |-> "none", raised |-> "none", page_fetch |-> "pending",
               attempted |-> <<>>, fetched |-> <<>>,
               tracks |-> <<>>, ti |-> 1, transcripts |-> <<>>, log |-> <<>>,
               caption_lines |-> <<>>, json_lines |-> None, lines |-> <<>>,
               media_id |-> None, media_failure |-> "none", printed |-> None]

Fetched(r, url) == [r EXCEPT !.fetched = Append(r.fetched, url)]

\* The run ends with an exception: `raised` is its class, `error` its kind.
Fail(r, error, raised) ==
    [r EXCEPT !.pc = "done", !.status = "Failed", !.error = error, !.raised = raised]

\* `except urllib.error.URLError as exc: raise SystemExit(...)` in main.
MainRaised(exc) == IF exc = "URLError" THEN "SystemExit" ELSE exc

Attempt(r, strategy) == [r EXCEPT !.attempted = Append(r.attempted, strategy)]

Others == UNCHANGED <<vtt, col, wis, jsn>>

\* The page's fetch failure swallowed, the strategies tried on an empty page.
PageFetchError_Swallowed(r, raised) ==
    [r EXCEPT !.page_fetch = "failed", !.pc = "TryingInlineJSON"]

\* fetch(url) raised: extract_transcript lets it through and main reports it.
PageFetchError(r, raised) ==
    Fail([r EXCEPT !.page_fetch = "failed"], "NetworkError", raised)

ExtractFetchPageFail ==
    /\ run.pc = "FetchingPage" /\ run.prog = "scripts"
    /\ \E exc \in FetchErrors :
        run' = PageFetchError(Fetched(run, PageUrl), exc)
    /\ Others

ExtractFetchPage ==
    /\ run.pc = "FetchingPage" /\ run.prog = "scripts"
    /\ run' = [Fetched(run, PageUrl) EXCEPT !.page_fetch = "ok", !.pc = "TryingHTMLTracks"]
    /\ Others

\* extract_captions: parser.feed(html); `if not parser.tracks: return []`.
CaptionsNoTracks ==
    /\ run.pc = "TryingHTMLTracks"
    /\ FeedTags(<<>>, run.page.tags) = <<>>
    /\ run' = [Attempt(run, "HTMLTracks") EXCEPT !.pc = "TryingInlineJSON"]
    /\ Others

CaptionsFeed ==
    /\ run.pc = "TryingHTMLTracks"
    /\ FeedTags(<<>>, run.page.tags) # <<>>
    /\ run' = [Attempt(run, "HTMLTracks") EXCEPT
                 !.tracks = FeedTags(<<>>, run.page.tags), !.ti = 1,
                 !.pc = "FetchingCaptions"]
    /\ Others

\* No try/except around the track's fetch: its failure ends the run.
CaptionFetchError_Abort(r) ==
    Fail([r EXCEPT !.log = Append(r.log, [ok |-> FALSE, text |-> <<>>])],
         "NetworkError", "URLError")

\* except Exception: print "Skipping caption ..."; continue
CaptionFetchError(r) ==
    [r EXCEPT !.log = Append(r.log, [ok |-> FALSE, text |-> <<>>]), !.ti = r.ti + 1]

CaptionFetchFail ==
    /\ run.pc = "FetchingCaptions"
    /\ run.ti <= Len(run.tracks)
    /\ run' = CaptionFetchError(Fetched(run, urljoin(PageUrl, run.tracks[run.ti].src)))
    /\ Others

\* header = f"[{label}]" if label else None
Header(label) ==
    IF Truthy(label) THEN << <<"[">> \o label[1] \o <<"]">> >> ELSE <<>>

\* The header only when the page has more than one track.
AppendTrack_HeaderIfMany(r, text) ==
    [r EXCEPT !.transcripts =
                IF text # <<>>
                THEN @ \o (IF Len(r.tracks) > 1 THEN Header(r.tracks[r.ti].label) ELSE <<>>)
                       \o text
                ELSE @,
              !.log = Append(r.log, [ok |-> TRUE, text |-> text]),
              !.ti = r.ti + 1]

\* text = parse_webvtt(...); if text: the header, if any, then the cues.
AppendTrack(r, text) ==
    [r EXCEPT !.transcripts = IF text # <<>>
                              THEN @ \o Header(r.tracks[r.ti].label) \o text ELSE @,
              !.log = Append(r.log, [ok |-> TRUE, text |-> text]),
              !.ti = r.ti + 1]

CaptionFetch ==
    /\ run.pc = "FetchingCaptions"
    /\ run.ti <= Len(run.tracks)
    /\ \E content \in CaptionDocs :
        run' = AppendTrack(Fetched(run, urljoin(PageUrl, run.tracks[run.ti].src)),
                           parse_webvtt(content))
    /\ Others

\* No return after the HTML strategy's result: the run goes on to inline JSON.
CaptionsReturn_FallThrough(r) ==
    [r EXCEPT !.caption_lines = r.transcripts, !.lines = r.transcripts,
              !.pc = "TryingInlineJSON"]

\* The result returned without the `if caption_lines` test.
CaptionsReturn_Unchecked(r) ==
    [r EXCEPT !.caption_lines = r.transcripts, !.lines = r.transcripts,
              !.status = "Succeeded", !.pc = "done"]

\* caption_lines = list(extract_captions(url, html)); if caption_lines: return ...
CaptionsReturn(r) ==
    IF r.transcripts # <<>>
    THEN [r EXCEPT !.caption_lines = r.transcripts, !.lines = r.transcripts,
                   !.status = "Succeeded", !.pc = "done"]
    ELSE [r EXCEPT !.caption_lines = r.transcripts, !.pc = "TryingInlineJSON"]

CaptionsSucceed ==
    /\ run.pc = "FetchingCaptions"
    /\ run.ti > Len(run.tracks)
    /\ run.transcripts # <<>>
    /\ run' = CaptionsReturn(run)
    /\ Others

CaptionsEmpty ==
    /\ run.pc = "FetchingCaptions"
    /\ run.ti > Len(run.tracks)
    /\ run.transcripts = <<>>
    /\ run' = CaptionsReturn(run)
    /\ Others

\* json_lines = extract_json_transcript(html); if json_lines: return ...; raise
JsonResult(r, json_lines) ==
    IF JsonDecision(json_lines) = "Succeeded"
    THEN [r EXCEPT !.json_lines = json_lines, !.lines = json_lines[1],
                   !.status = "Succeeded", !.pc = "done"]
    ELSE Fail([r EXCEPT !.json_lines = json_lines], "TranscriptNotFound", "RuntimeError")

JsonSucceed ==
    /\ run.pc = "TryingInlineJSON"
    /\ JsonDecision(extract_json_transcript(run.page.frag)) = "Succeeded"
    /\ run' = JsonResult(Attempt(run, "InlineJSON"), extract_json_transcript(run.page.frag))
    /\ Others

JsonNotFound ==
    /\ run.pc = "TryingInlineJSON"
    /\ JsonDecision(extract_json_transcript(run.page.frag)) # "Succeeded"
    /\ run' = JsonResult(Attempt(run, "InlineJSON"), extract_json_transcript(run.page.frag))
    /\ Others

\* TranscriptResult.as_text
as_text(lines) == Join(lines, <<"\n">>)

\* main of extract_transcript.py: URLError becomes SystemExit("Failed to
\* download page: ..."), any other error leaves main uncaught.
MainFetchPageFail ==
    /\ run.pc = "FetchingPage" /\ run.prog = "wistia"
    /\ \E exc \in FetchErrors :
        run' = PageFetchError(Fetched(run, PageUrl), MainRaised(exc))
    /\ Others

MainFetchPage ==
    /\ run.pc = "FetchingPage" /\ run.prog = "wistia"
    /\ run' = [Fetched(run, PageUrl) EXCEPT !.page_fetch = "ok", !.pc = "TryingMediaPlatform"]
    /\ Others

\* SystemExit("Could not locate a Wistia media ID in the provided page")
MainNoMediaId ==
    /\ run.pc = "TryingMediaPlatform"
    /\ find_wistia_media_id(run.page.chunks) = None
    /\ run' = Fail(Attempt(run, "MediaPlatform"), "NoMediaId", "SystemExit")
    /\ Others

MainMediaId ==
    /\ run.pc = "TryingMediaPlatform"
    /\ find_wistia_media_id(run.page.chunks) # None
    /\ run' = [Attempt(run, "MediaPlatform") EXCEPT
                 !.media_id = find_wistia_media_id(run.page.chunks),
                 !.pc = "FetchingMetadata"]
    /\ Others

\* The failure reported and the run continued with the next strategy.
MediaFailure_Continue(r, what, error, raised) ==
    [r EXCEPT !.media_failure = what, !.pc = "TryingInlineJSON"]

\* A failure inside the media-platform strategy: the run ends with it.
MediaFailure(r, what, error, raised) ==
    Fail([r EXCEPT !.media_failure = what], error, raised)

\* fetch(json_url) raised: SystemExit("Failed to download Wistia metadata: ...")
\* for URLError, uncaught otherwise.
MainMetadataFail ==
    /\ run.pc = "FetchingMetadata"
    /\ \E exc \in FetchErrors :
        run' = MediaFailure(Fetched(run, MetadataUrl(run.media_id[1])),
                            "metadata_fetch", "NetworkError", MainRaised(exc))
    /\ Others

\* json.loads raised JSONDecodeError, which main does not catch.
MainMetadataBadJson ==
    /\ run.pc = "FetchingMetadata"
    /\ run' = MediaFailure(Fetched(run, MetadataUrl(run.media_id[1])),
                           "metadata_parse", "ParseError", "JSONDecodeError")
    /\ Others

\* SystemExit("No caption tracks were found for this media")
MainNoTracks ==
    /\ run.pc = "FetchingMetadata"
    /\ \E captions \in MetadataDocs :
        /\ parse_caption_tracks(captions) = <<>>
        /\ run' = MediaFailure(Fetched(run, MetadataUrl(run.media_id[1])),
                               "no_captions", "NoCaptionTracks", "SystemExit")
    /\ Others

MainMetadata ==
    /\ run.pc = "FetchingMetadata"
    /\ \E captions \in MetadataDocs :
        /\ parse_caption_tracks(captions) # <<>>
        /\ run' = [Fetched(run, MetadataUrl(run.media_id[1])) EXCEPT
                     !.tracks = parse_caption_tracks(captions),
                     !.pc = "DownloadingTranscript"]
    /\ Others

\* fetch(track.url) raised inside download_transcript(tracks[0]): uncaught.
MainDownloadFail ==
    /\ run.pc = "DownloadingTranscript"
    /\ \E exc \in FetchErrors :
        run' = MediaFailure(Fetched(run, run.tracks[1].url),
                            "caption_fetch", "NetworkError", exc)
    /\ Others

\* transcript = download_transcript(tracks[0]); print(...)
MainDownload ==
    /\ run.pc = "DownloadingTranscript"
    /\ \E raw \in CaptionDocs :
        run' = [Fetched(run, run.tracks[1].url) EXCEPT
                  !.printed = Some(download_transcript(raw)),
                  !.status = "Succeeded", !.pc = "done"]
    /\ Others

Init ==
    /\ RunInit
    /\ vtt = Idle /\ col = Idle /\ wis = Idle /\ jsn = Idle

Next ==
    \/ ExtractFetchPageFail \/ ExtractFetchPage
    \/ CaptionsNoTracks \/ CaptionsFeed \/ CaptionFetchFail \/ CaptionFetch
    \/ CaptionsSucceed \/ CaptionsEmpty \/ JsonSucceed \/ JsonNotFound
    \/ MainFetchPageFail \/ MainFetchPage \/ MainNoMediaId \/ MainMediaId
    \/ MainMetadataFail \/ MainMetadataBadJson \/ MainNoTracks \/ MainMetadata
    \/ MainDownloadFail \/ MainDownload

Spec == Init /\ [][Next]_vars

SpecParseInit ==
    /\ VttInit
    /\ col = Idle /\ wis = Idle /\ jsn = Idle /\ run = Idle

SpecParseNext ==
    \/ VttBlank \/ VttBanner \/ VttNote \/ VttNoteBody
    \/ VttTiming \/ VttIndex \/ VttText \/ VttReturn

SpecParse == SpecParseInit /\ [][SpecParseNext]_vars

SpecTracksInit ==
    /\ ColInit
    /\ vtt = Idle /\ wis = Idle /\ jsn = Idle /\ run = Idle

SpecTracksNext == ColNotTrack \/ ColWrongKind \/ ColNoSrc \/ ColAppend \/ ColEnd

SpecTracks == SpecTracksInit /\ [][SpecTracksNext]_vars

SpecWistiaInit ==
    /\ WisInit
    /\ vtt = Idle /\ col = Idle /\ jsn = Idle /\ run = Idle

SpecWistiaNext == WisMatch \/ WisNoMatch \/ WisReturnNone

SpecWistia == SpecWistiaInit /\ [][SpecWistiaNext]_vars

SpecJsonInit ==
    /\ JsnInit
    /\ vtt = Idle /\ col = Idle /\ wis = Idle /\ run = Idle

SpecJsonNext ==
    \/ JsnNoMatch \/ JsnDecodeError \/ JsnLoads
    \/ JsnDict \/ JsnStr \/ JsnOther \/ JsnReturn \/ JsnDecide

SpecJson == SpecJsonInit /\ [][SpecJsonNext]_vars

(***************************************************************************)
(* The claims.                                                             *)
(***************************************************************************)
Priority(strategy) ==
    CASE strategy = "HTMLTracks" -> 1
      [] strategy = "MediaPlatform" -> 2
      [] strategy = "InlineJSON" -> 3

Strategies == {"HTMLTracks", "MediaPlatform", "InlineJSON"}

\* C1 as stated: every run tries HTML tracks, then the media platform, then
\* inline JSON, a later strategy only after every earlier one was tried.
C1_PriorityOrderOfThree ==
    \A i \in 1..Len(run.attempted) :
        \A s \in Strategies :
            Priority(s) < Priority(run.attempted[i])
                => \E j \in 1..(i - 1) : run.attempted[j] = s

\* C1 amended: each entry point tries the strategies it implements in a fixed
\* order (extract_transcript: HTML tracks then inline JSON; main of
\* extract_transcript.py: the media platform alone); inline JSON is tried only
\* after the HTML strategy finished every track without a line; and once a
\* strategy has produced a non-empty result the run has stopped in success,
\* with no later strategy tried and no fetch beyond that strategy's own.
C1_OrderPerEntryPoint ==
    /\ run.prog = "scripts"
        => run.attempted \in {<<>>, <<"HTMLTracks">>, <<"HTMLTracks", "InlineJSON">>}
    /\ run.prog = "wistia" => run.attempted \in {<<>>, <<"MediaPlatform">>}
    /\ "InlineJSON" \in Range(run.attempted)
        => /\ run.transcripts = <<>>
           /\ run.ti = Len(run.tracks) + 1
    /\ run.caption_lines # <<>>
        => /\ run.status = "Succeeded" /\ run.pc = "done"
           /\ run.attempted = <<"HTMLTracks">>
           /\ Len(run.fetched) = 1 + Len(run.tracks)
    /\ (run.json_lines # None /\ run.json_lines[1] # <<>>)
        => /\ run.status = "Succeeded" /\ run.pc = "done"
           /\ run.attempted = <<"HTMLTracks", "InlineJSON">>
           /\ Len(run.fetched) = 1 + Len(run.tracks)
    /\ run.status = "Succeeded" => run.pc = "done"

C1_Witness ==
    /\ run.pc = "done" /\ run.status = "Succeeded"
    /\ run.attempted = <<"HTMLTracks", "InlineJSON">>
    /\ Len(run.fetched) = 3

\* C2: once the fetch of the root page has failed, the run is over with the
\* network error: no strategy was tried, no other URL fetched, nothing returned
\* or printed, and the error is no TranscriptNotFound.
C2_PageFetchFailureIsFatal ==
    run.page_fetch = "failed"
        => /\ run.pc = "done" /\ run.status = "Failed"
           /\ run.error = "NetworkError"
           /\ run.raised \in FetchErrors \cup {"SystemExit"}
           /\ run.attempted = <<>>
           /\ run.fetched = <<PageUrl>>
           /\ run.lines = <<>> /\ run.printed = None

C2_Witness ==
    /\ run.page_fetch = "failed" /\ run.prog = "scripts"
    /\ Len(run.page.tags) = 2
    /\ extract_json_transcript(run.page.frag) # None

\* C3: a failed fetch of one caption track does not end the run: the tracks
\* are fetched one by one in document order whatever failed before, inline
\* JSON is tried when no track gave a cue, and a run in which nothing gave
\* content ends with TranscriptNotFound, never with the track's network error.
C3_TrackFetchFailureIsSkipped ==
    run.prog = "scripts" /\ run.page_fetch = "ok" /\ run.tracks # <<>>
        => /\ run.fetched = <<PageUrl>> \o
                 [i \in 1..(run.ti - 1) |-> urljoin(PageUrl, run.tracks[i].src)]
           /\ Len(run.log) = run.ti - 1
           /\ run.pc \in {"TryingInlineJSON", "done"} => run.ti = Len(run.tracks) + 1
           /\ (\E i \in 1..Len(run.log) : ~run.log[i].ok)
                => /\ run.error # "NetworkError"
                   /\ (run.pc = "done" /\ \A j \in 1..Len(run.log) : run.log[j].text = <<>>)
                        => "InlineJSON" \in Range(run.attempted)
                   /\ run.status = "Failed"
                        => /\ run.error = "TranscriptNotFound"
                           /\ run.raised = "RuntimeError"

C3_Witness ==
    /\ run.pc = "done" /\ run.error = "TranscriptNotFound"
    /\ Len(run.log) = 2
    /\ ~run.log[1].ok /\ run.log[2].ok

\* C4 as stated: a failure inside the media-platform strategy does not end
\* the run; inline JSON is tried next and the only terminal error after the
\* page was fetched is TranscriptNotFound.
C4_MediaFailureFallsBack ==
    run.media_failure # "none" /\ run.pc = "done"
        => /\ "InlineJSON" \in Range(run.attempted)
           /\ run.status = "Failed" => run.error = "TranscriptNotFound"

\* C4 amended: in main of extract_transcript.py a failure while fetching or
\* parsing the metadata, an empty caption list, or a failure while fetching
\* the first caption file ends the run at once with that failure; inline JSON
\* is not tried and the error is not TranscriptNotFound.
C4_MediaFailureIsFatal ==
    run.media_failure # "none"
        => /\ run.prog = "wistia"
           /\ run.pc = "done" /\ run.status = "Failed"
           /\ run.attempted = <<"MediaPlatform">>
           /\ run.printed = None
           /\ run.media_failure = "metadata_fetch"
                => run.error = "NetworkError" /\ Len(run.fetched) = 2
           /\ run.media_failure = "metadata_parse"
                => run.error = "ParseError" /\ Len(run.fetched) = 2
           /\ run.media_failure = "no_captions"
                => run.error = "NoCaptionTracks" /\ Len(run.fetched) = 2
           /\ run.media_failure = "caption_fetch"
                => run.error = "NetworkError" /\ Len(run.fetched) = 3

C4_Witness ==
    /\ run.media_failure = "caption_fetch"
    /\ run.raised = "OSError"
    /\ run.page.frag.array # None /\ run.page.frag.array[1] # <<>>

C6_SingleTrackHasNoHeader ==
    ( /\ run.prog = "scripts" /\ run.pc = "done" /\ run.status = "Succeeded"
      /\ Len(run.tracks) = 1 /\ Len(run.log) = 1 /\ run.log[1].text # <<>> )
        => run.lines = run.log[1].text

RECURSIVE ExpectedLines(_, _, _)
ExpectedLines(tracks, log, n) ==
    IF n = 0 THEN <<>>
    ELSE ExpectedLines(tracks, log, n - 1)
         \o (IF log[n].text = <<>> THEN <<>>
             ELSE IF tracks[n].label \in {None, Some(<<>>)} THEN log[n].text
             ELSE << <<"[">> \o tracks[n].label[1] \o <<"]">> >> \o log[n].text)

EnglishHelloGoodbye ==
    <<"[">> \o Str_English \o <<"]", "\n">> \o Str_Hello \o <<"\n">> \o Str_Goodbye

\* C6 amended: the header line "[label]" is put before a track's cues whenever
\* the track has a non-empty label and gave cues, whatever the number of
\* tracks, and an unlabelled track gives its cues alone; one track labelled
\* "English" with the cues "Hello there." and "Goodbye." yields
\* "[English]\nHello there.\nGoodbye.".
C6_HeaderForEveryLabelledTrack ==
    run.prog = "scripts"
        => /\ run.transcripts = ExpectedLines(run.tracks, run.log, Len(run.log))
           /\ run.caption_lines # <<>> => run.lines = run.transcripts
           /\ ( /\ run.pc = "done"
                /\ run.tracks = <<[src |-> Str_capvtt, label |-> Some(Str_English)]>>
                /\ run.log = <<[ok |-> TRUE, text |-> <<Str_Hello, Str_Goodbye>>]>> )
                => as_text(run.lines) = EnglishHelloGoodbye

C6_Witness ==
    /\ run.pc = "done" /\ run.status = "Succeeded"
    /\ Len(run.page.tags) = 1
    /\ as_text(run.lines) = EnglishHelloGoodbye

CueBlocksOf(blocks) == SelectSeq(blocks, LAMBDA b : b.kind = "cue")

ExpectedCue(b) ==
    Join([i \in 1..Len(b.payload) |-> Strip(b.payload[i], Whitespace \cup {BOM})], <<" ">>)

\* C7: for a file of N cue blocks with text, separated by blank lines,
\* parse_webvtt returns N cues, in input order, each the block's text stripped
\* of BOM and surrounding whitespace, none with "-->" and none all digits.
C7_OneCuePerBlock ==
    vtt.pc = "done"
        => /\ Len(vtt.cues) = Len(CueBlocksOf(vtt.blocks))
           /\ \A i \in 1..Len(vtt.cues) :
                /\ i <= Len(CueBlocksOf(vtt.blocks))
                    => vtt.cues[i] = ExpectedCue(CueBlocksOf(vtt.blocks)[i])
                /\ ~Contains(vtt.cues[i], Arrow)
                /\ ~IsDigit(vtt.cues[i])

IframeIds(html) ==
    {i \in 1..Len(html) : /\ html[i].prefix = "https://fast.wistia.net/embed/iframe/"
                          /\ AlnumRun(html[i].tail) # <<>>}

AsyncIds(html) ==
    {i \in 1..Len(html) : /\ html[i].prefix = "wistia_async_"
                          /\ AlnumRun(html[i].tail) # <<>>}

\* C8: when the HTML holds an iframe-embed URL and an async-loader token with
\* different identifiers, the iframe-embed identifier is returned, wherever
\* the two stand; when no pattern matches, nothing is returned.
C8_IframeBeforeAsync ==
    wis.pc = "done"
        => /\ \A i \in IframeIds(wis.html), a \in AsyncIds(wis.html) :
                ( /\ AlnumRun(wis.html[i].tail) # AlnumRun(wis.html[a].tail)
                  /\ \A j \in IframeIds(wis.html) : i <= j )
                    => wis.ret = Some(AlnumRun(wis.html[i].tail))
           /\ (\A k \in 1..Len(patterns) : Search(patterns[k], wis.html) = None)
                => wis.ret = None

KeyPresent(frag) == frag.key \in {Str_transcript, <<"T">> \o Tail(Str_transcript)}

Parseable(frag) ==
    /\ frag.array # None
    /\ \A i \in 1..Len(frag.array[1]) : ~HasBracket(frag.array[1][i])

YieldsLine(item) ==
    \/ item.t = "str"
    \/ item.t = "obj" /\ (item.text \notin {None, Some(<<>>)} \/ item.body \notin {None, Some(<<>>)})

\* C9 as stated: with the key present and a parseable array the function
\* returns a sequence, possibly empty; with the key absent it returns nothing.
C9_EmptyIsNotNone ==
    jsn.pc \in {"returned", "done"}
        => /\ ~KeyPresent(jsn.frag) => jsn.ret = None
           /\ (KeyPresent(jsn.frag) /\ Parseable(jsn.frag)) => jsn.ret # None

\* C9 amended: extract_json_transcript returns nothing when the key is absent,
\* when the fragment does not parse and also when the array gives no line; it
\* returns a sequence only when that sequence is not empty, so "inapplicable"
\* and "found nothing" are the same result, and the orchestrator succeeds
\* exactly when a sequence was returned.
C9_NothingOrNonEmpty ==
    jsn.pc \in {"returned", "done"}
        => /\ (~KeyPresent(jsn.frag) \/ ~Parseable(jsn.frag)) => jsn.ret = None
           /\ (KeyPresent(jsn.frag) /\ Parseable(jsn.frag))
                => ( jsn.ret = None
                       <=> \A i \in 1..Len(jsn.frag.array[1]) : ~YieldsLine(jsn.frag.array[1][i]) )
           /\ jsn.ret # Some(<<>>)
           /\ jsn.pc = "done"
                => (jsn.decision = "Succeeded" <=> jsn.ret # None)

C9_Witness ==
    /\ jsn.pc = "done"
    /\ jsn.frag = [key |-> Str_transcript, array |-> Some(<<>>)]
    /\ jsn.ret = None /\ jsn.decision = "TranscriptNotFound"

AcceptedKinds ==
    { <<"c","a","p","t","i","o","n","s">>, <<"C","A","P","T","I","O","N","S">>,
      <<"s","u","b","t","i","t","l","e","s">>, <<"S","u","b","t","i","t","l","e","s">> }

HasAttr(ev, name, values) == \E v \in values : <<name, Some(v)>> \in Range(ev.attrs)

IsCaptionTrack(ev) ==
    /\ ev.tag = <<"t","r","a","c","k">>
    /\ HasAttr(ev, Str_kind, AcceptedKinds)
    /\ HasAttr(ev, Str_src, {Str_capvtt, Str_bvtt})

\* C10: the collector's tracks are, in document order, exactly the track tags
\* whose kind is "subtitles" or "captions" in any letter case and whose src is
\* not empty, each with its src and its label (None when it has none).
C10_OnlyCaptionTracks ==
    LET sel == SelectSeq(col.tags, IsCaptionTrack)
    IN  col.pc # "idle"
        => /\ Len(col.tracks) = Len(sel)
           /\ \A i \in 1..Len(sel) :
                /\ <<Str_src, Some(col.tracks[i].src)>> \in Range(sel[i].attrs)
                /\ IF HasAttr(sel[i], Str_label, {Str_English})
                   THEN col.tracks[i].label = Some(Str_English)
                   ELSE col.tracks[i].label = None

C10_Witness ==
    /\ col.pc = "done"
    /\ Len(col.tags) = 2
    /\ col.tracks = <<[src |-> Str_bvtt, label |-> None],
                      [src |-> Str_capvtt, label |-> Some(Str_English)]>>
    /\ <<Str_kind, Some(<<"C","A","P","T","I","O","N","S">>)>> \in Range(col.tags[1].attrs)

====
